---- MODULE Spec2Model ----
(***************************************************************************)
(* A model of src/user.ts: the OAuth 2.0 authorization code flow with PKCE *)
(* (rfc6749 section 4.1, rfc7636) of the command line tool.                *)
(*                                                                         *)
(* JavaScript runs the module on one thread: a function runs without       *)
(* interruption up to its next `await`, so every action below is the code  *)
(* between two awaits of one flow (a callback request, a refresh() call,   *)
(* a getAuthURL() call).  Flows interleave at their awaits only.           *)
(*                                                                         *)
(* A JavaScript object is a function from the names of the properties it   *)
(* has to their values; a property that is absent is absent from DOMAIN.   *)
(*                                                                         *)
(* `outcome` and `tokenGrant` are history variables: they record what a    *)
(* step did and are read by no step of the program.                        *)
(***************************************************************************)
EXTENDS Integers, Sequences, FiniteSets, Bags, TLC

(***************************************************************************)
(* Bounds of the model.                                                    *)
(***************************************************************************)
\* number of callback requests the local server handles at the same time
MaxRequests == 2
\* number of seconds the model lets the clock advance
MaxTicks == 1

(***************************************************************************)
(* JavaScript values.                                                      *)
(***************************************************************************)
\* the value `undefined`; as `${undefined}` it renders as this text
Undefined == "undefined"

\* truthiness of a string-or-undefined value: `if (v)`, `!v`, `v || d`
Truthy(v) == v # Undefined /\ v # ""

\* `k in obj` for an own property
Has(obj, k) == k \in DOMAIN obj

\* `obj.k` of a string property: undefined when absent
Get(obj, k) == IF Has(obj, k) THEN obj[k] ELSE Undefined

\* `obj.k = v`
Put(obj, k, v) == [x \in DOMAIN obj \cup {k} |-> IF x = k THEN v ELSE obj[x]]

\* the empty object literal `{}`
EmptyObject == <<>>

\* milliseconds per second: `expires_in * 1000`; also the step of the clock
MsPerSecond == 1000

(***************************************************************************)
(* The error classes and toErrorClass.                                     *)
(***************************************************************************)
\* the own properties of RawErrorToErrorClassMap
RawErrorToErrorClassMap ==
  [ invalid_request           |-> "ErrorInvalidRequest",
    invalid_grant             |-> "ErrorInvalidGrant",
    unauthorized_client       |-> "ErrorUnauthorizedClient",
    access_denied             |-> "ErrorAccessDenied",
    unsupported_response_type |-> "ErrorUnsupportedResponseType",
    invalid_scope             |-> "ErrorInvalidScope",
    server_error              |-> "ErrorServerError",
    temporarily_unavailable   |-> "ErrorTemporarilyUnavailable",
    invalid_client            |-> "ErrorInvalidClient",
    unsupported_grant_type    |-> "ErrorUnsupportedGrantType",
    invalid_json              |-> "ErrorInvalidJson",
    invalid_token             |-> "ErrorInvalidToken" ]

\* RawErrorToErrorClassMap is an object literal, so a lookup that misses its
\* own properties continues in Object.prototype: `constructor` is the Object
\* function, the others are built-in methods or objects that `new` rejects.
ObjectPrototypeConstructors == { "constructor" }
ObjectPrototypeNonConstructors ==
  { "toString", "valueOf", "hasOwnProperty", "isPrototypeOf",
    "propertyIsEnumerable", "toLocaleString", "__proto__" }

\* `new (RawErrorToErrorClassMap[rawError] || ErrorUnknown)()`:
\* threw tells whether the expression threw, value what it returned or threw
toErrorClass(rawError) ==
  IF rawError \in DOMAIN RawErrorToErrorClassMap
    THEN [threw |-> FALSE, value |-> RawErrorToErrorClassMap[rawError]]
  ELSE IF rawError \in ObjectPrototypeConstructors
    THEN [threw |-> FALSE, value |-> "Object"]
  ELSE IF rawError \in ObjectPrototypeNonConstructors
    THEN [threw |-> TRUE, value |-> "TypeError"]
  ELSE [threw |-> FALSE, value |-> "ErrorUnknown"]

\* what `throw toErrorClass(rawError)` throws
ThrowToErrorClass(rawError) == toErrorClass(rawError).value

(***************************************************************************)
(* The inputs of the model.                                                *)
(***************************************************************************)
\* authorization codes a callback may carry
Codes == { "c1", "c2" }
\* values of generateRandomState
States == { "s1", "s2" }
\* values of the code verifier of generatePKCECodes
Verifiers == { "v1", "v2" }

\* the query of a callback request, as url.parse(req.url, true) gives it
Queries ==
  [ error : { Undefined, "", "access_denied", "bogus" },
    code  : { Undefined, "" } \cup Codes,
    state : { Undefined } \cup States ]

\* the parsed JSON bodies the token endpoint may answer with; a string the
\* code takes apart (scope) is the sequence of its characters, and the scope
\* names are abbreviated to one character each
JsonBodies ==
  { [ access_token |-> "T1", expires_in |-> 1, refresh_token |-> "R1",
      scope |-> <<"r", " ", "w">> ],
    [ access_token |-> "T2", expires_in |-> 1 ],
    [ error |-> "invalid_grant" ],
    [ error |-> "bogus" ] }

\* HTTP statuses of the token endpoint: success, redirection class, error
Statuses == { 200, 304, 400 }

\* what `await fetch(...)` followed by `await response.json()` can meet: the
\* request fails on the network, or a response arrives whose body parses to
\* a JSON value or does not parse
TokenResponses ==
  { [ kind |-> "network_error" ] }
    \cup [ kind : { "http" }, status : Statuses, parses : { FALSE } ]
    \cup [ kind : { "http" }, status : Statuses, parses : { TRUE }, json : JsonBodies ]

\* the time value of `new Date(text)` for a text that denotes no instant,
\* an absent expiration_time included (NaN): it compares false with every
\* instant
InvalidDate == -1

\* the credential file read at load time: absent (or not TOML), or its keys
ConfigFiles ==
  { [ readable |-> FALSE ] }
    \cup [ readable : { TRUE },
           oauth_token : { Undefined, "T0" },
           refresh_token : { Undefined, "R0" },
           expiration_time : { InvalidDate, 0 } ]

(***************************************************************************)
(* The state.                                                              *)
(***************************************************************************)
VARIABLES
  LocalState,   \* the module-level session object
  now,          \* Date.now(), in milliseconds
  requests,     \* the bag of callback requests the local server is handling
  refresher,    \* the refresh() call in progress, if any
  outcome,      \* history: the step a flow has just taken, until observed
  tokenGrant,   \* history: the grant that produced LocalState.accessToken
  supersededState \* history: the stateQueryParam that the last getAuthURL
                  \* call replaced by a different one, if it replaced one

vars == << LocalState, now, requests, refresher, outcome, tokenGrant, supersededState >>

\* the bag with the one element h
One(h) == SetToBag({ h })

\* the block that seeds LocalState from the credential file at load time.
\* An expiry is kept as the instant its ISO text denotes: toISOString() and
\* new Date(text) are inverse on the instants of the model.
LocalStateOfFile(file) ==
  LET s0 == EmptyObject
      s1 == IF file.readable /\ Truthy(file.oauth_token)
              THEN Put(s0, "accessToken",
                       [ value |-> file.oauth_token, expiry |-> file.expiration_time ])
              ELSE s0
      s2 == IF file.readable /\ Truthy(file.refresh_token)
              THEN Put(s1, "refreshToken", [ value |-> file.refresh_token ])
              ELSE s1
  IN  s2

NoGrant == [ grant |-> "none" ]

\* no step is waiting to be observed
NoOutcome == [ op |-> "none" ]

\* every step of a flow is observed before the next one is taken: `outcome`
\* records one step at a time and restricts no interleaving of the flows
Observed == outcome = NoOutcome

Init ==
  /\ \E file \in ConfigFiles :
        /\ LocalState = LocalStateOfFile(file)
        /\ tokenGrant = IF Has(LocalStateOfFile(file), "accessToken")
                          THEN [ grant |-> "file" ] ELSE NoGrant
  /\ now = 0
  /\ requests = EmptyBag
  /\ refresher = [ pc |-> "idle" ]
  /\ outcome = NoOutcome
  /\ supersededState = Undefined

(***************************************************************************)
(* The clock.                                                              *)
(***************************************************************************)
Tick ==
  /\ Observed
  /\ now < MaxTicks * MsPerSecond
  /\ now' = now + MsPerSecond
  /\ UNCHANGED << LocalState, requests, refresher, outcome, tokenGrant, supersededState >>

(***************************************************************************)
(* getAuthURL.                                                             *)
(***************************************************************************)
\* base64url(SHA-256(codeVerifier)): a digest is not computed here; the
\* challenge is a value that names the verifier it was derived from
S256(codeVerifier) == << "S256", codeVerifier >>

\* Object.assign that leaves a stateQueryParam already stored in place
AssignPKCE_KeepState(state, codeVerifier, stateQueryParam) ==
  Put(Put(Put(state, "codeChallenge", S256(codeVerifier)),
          "codeVerifier", codeVerifier),
      "stateQueryParam",
      IF Has(state, "stateQueryParam") THEN state.stateQueryParam
      ELSE stateQueryParam)

\* Object.assign(LocalState, { codeChallenge, codeVerifier, stateQueryParam })
AssignPKCE(state, codeVerifier, stateQueryParam) ==
  Put(Put(Put(state, "codeChallenge", S256(codeVerifier)),
          "codeVerifier", codeVerifier),
      "stateQueryParam", stateQueryParam)

\* the continuation of getAuthURL after `await generatePKCECodes()`
GetAuthURL ==
  \E codeVerifier \in Verifiers, stateQueryParam \in States :
    /\ Observed
    /\ LocalState' = AssignPKCE(LocalState, codeVerifier, stateQueryParam)
    /\ outcome' = [ op |-> "getAuthURL", before |-> LocalState,
                    state |-> stateQueryParam,
                    code_challenge |-> S256(codeVerifier) ]
    /\ supersededState' = IF Get(LocalState, "stateQueryParam") = stateQueryParam
                             THEN Undefined
                             ELSE Get(LocalState, "stateQueryParam")
    /\ UNCHANGED << now, requests, refresher, tokenGrant >>

(***************************************************************************)
(* The callback receiver.                                                  *)
(***************************************************************************)
\* isReturningFromAuthServer with the state comparison left out
isReturningFromAuthServer_NoStateCheck(query, state) ==
  IF Truthy(query.error)
    THEN [ threw |-> TRUE, error |-> ThrowToErrorClass(query.error),
           returned |-> FALSE, state |-> state ]
  ELSE IF ~Truthy(query.code)
    THEN [ threw |-> FALSE, error |-> Undefined,
           returned |-> FALSE, state |-> state ]
  ELSE [ threw |-> FALSE, error |-> Undefined, returned |-> TRUE,
         state |-> Put(Put(state, "authorizationCode", query.code),
                       "hasAuthCodeBeenExchangedForAccessToken", FALSE) ]

\* isReturningFromAuthServer with the missing-code check ahead of the error
\* check
isReturningFromAuthServer_CodeFirst(query, state) ==
  IF ~Truthy(query.code)
    THEN [ threw |-> FALSE, error |-> Undefined,
           returned |-> FALSE, state |-> state ]
  ELSE IF Truthy(query.error)
    THEN [ threw |-> TRUE, error |-> ThrowToErrorClass(query.error),
           returned |-> FALSE, state |-> state ]
  ELSE IF query.state # Get(state, "stateQueryParam")
    THEN [ threw |-> TRUE, error |-> "ErrorInvalidReturnedStateParam",
           returned |-> FALSE, state |-> state ]
  ELSE [ threw |-> FALSE, error |-> Undefined, returned |-> TRUE,
         state |-> Put(Put(state, "authorizationCode", query.code),
                       "hasAuthCodeBeenExchangedForAccessToken", FALSE) ]

\* isReturningFromAuthServer with the state comparison ahead of the
\* missing-code check
isReturningFromAuthServer_StateFirst(query, state) ==
  IF Truthy(query.error)
    THEN [ threw |-> TRUE, error |-> ThrowToErrorClass(query.error),
           returned |-> FALSE, state |-> state ]
  ELSE IF query.state # Get(state, "stateQueryParam")
    THEN [ threw |-> TRUE, error |-> "ErrorInvalidReturnedStateParam",
           returned |-> FALSE, state |-> state ]
  ELSE IF ~Truthy(query.code)
    THEN [ threw |-> FALSE, error |-> Undefined,
           returned |-> FALSE, state |-> state ]
  ELSE [ threw |-> FALSE, error |-> Undefined, returned |-> TRUE,
         state |-> Put(Put(state, "authorizationCode", query.code),
                       "hasAuthCodeBeenExchangedForAccessToken", FALSE) ]

\* isReturningFromAuthServer comparing the state only when the query has one
isReturningFromAuthServer_AbsentStateAccepted(query, state) ==
  IF Truthy(query.error)
    THEN [ threw |-> TRUE, error |-> ThrowToErrorClass(query.error),
           returned |-> FALSE, state |-> state ]
  ELSE IF ~Truthy(query.code)
    THEN [ threw |-> FALSE, error |-> Undefined,
           returned |-> FALSE, state |-> state ]
  ELSE IF Truthy(query.state) /\ query.state # Get(state, "stateQueryParam")
    THEN [ threw |-> TRUE, error |-> "ErrorInvalidReturnedStateParam",
           returned |-> FALSE, state |-> state ]
  ELSE [ threw |-> FALSE, error |-> Undefined, returned |-> TRUE,
         state |-> Put(Put(state, "authorizationCode", query.code),
                       "hasAuthCodeBeenExchangedForAccessToken", FALSE) ]

\* isReturningFromAuthServer without the reset of
\* hasAuthCodeBeenExchangedForAccessToken
isReturningFromAuthServer_KeepFlag(query, state) ==
  IF Truthy(query.error)
    THEN [ threw |-> TRUE, error |-> ThrowToErrorClass(query.error),
           returned |-> FALSE, state |-> state ]
  ELSE IF ~Truthy(query.code)
    THEN [ threw |-> FALSE, error |-> Undefined,
           returned |-> FALSE, state |-> state ]
  ELSE IF query.state # Get(state, "stateQueryParam")
    THEN [ threw |-> TRUE, error |-> "ErrorInvalidReturnedStateParam",
           returned |-> FALSE, state |-> state ]
  ELSE [ threw |-> FALSE, error |-> Undefined, returned |-> TRUE,
         state |-> Put(state, "authorizationCode", query.code) ]

\* isReturningFromAuthServer accepting a callback without storing its code
isReturningFromAuthServer_NoStore(query, state) ==
  IF Truthy(query.error)
    THEN [ threw |-> TRUE, error |-> ThrowToErrorClass(query.error),
           returned |-> FALSE, state |-> state ]
  ELSE IF ~Truthy(query.code)
    THEN [ threw |-> FALSE, error |-> Undefined,
           returned |-> FALSE, state |-> state ]
  ELSE IF query.state # Get(state, "stateQueryParam")
    THEN [ threw |-> TRUE, error |-> "ErrorInvalidReturnedStateParam",
           returned |-> FALSE, state |-> state ]
  ELSE [ threw |-> FALSE, error |-> Undefined, returned |-> TRUE,
         state |-> Put(state, "hasAuthCodeBeenExchangedForAccessToken", FALSE) ]

\* isReturningFromAuthServer(query), acting on the session object `state`:
\* threw/error tell what it threw, returned what it returned, state the
\* session object it leaves
isReturningFromAuthServer(query, state) ==
  IF Truthy(query.error)
    THEN [ threw |-> TRUE, error |-> ThrowToErrorClass(query.error),
           returned |-> FALSE, state |-> state ]
  ELSE IF ~Truthy(query.code)
    THEN [ threw |-> FALSE, error |-> Undefined,
           returned |-> FALSE, state |-> state ]
  ELSE IF query.state # Get(state, "stateQueryParam")
    THEN [ threw |-> TRUE, error |-> "ErrorInvalidReturnedStateParam",
           returned |-> FALSE, state |-> state ]
  ELSE [ threw |-> FALSE, error |-> Undefined, returned |-> TRUE,
         state |-> Put(Put(state, "authorizationCode", query.code),
                       "hasAuthCodeBeenExchangedForAccessToken", FALSE) ]

\* the `code` of the body exchangeAuthCodeForAccessToken posts, as the
\* endpoint decodes it
AuthCodeRequestCode(state) ==
  IF Truthy(Get(state, "authorizationCode")) THEN state.authorizationCode ELSE ""

\* the request handler of the server, from the arrival of a request on
\* /oauth/callback to its first await, or to res.end when it meets none.
\* A request in progress is kept as the await its handler is at: "exchanging"
\* (with the code it posted) or "writing".  `finished` tells that the handler
\* has ended, `responded` that it ended in res.end.
HandleCallback(query) ==
  LET res         == isReturningFromAuthServer(query, LocalState)
      hasAuthCode == IF res.threw THEN FALSE ELSE res.returned
      matching    == query.code = Get(res.state, "authorizationCode")
      branch      == IF ~hasAuthCode THEN "no auth code"
                     ELSE IF matching THEN "exchange" ELSE "not matching"
  IN  /\ Observed
      /\ BagCardinality(requests) < MaxRequests
      /\ LocalState' = res.state
      /\ requests' = IF branch = "exchange"
                       THEN requests (+) One([ pc |-> "exchanging",
                                               code |-> AuthCodeRequestCode(res.state) ])
                       ELSE requests
      /\ outcome' = [ op |-> "callback", before |-> LocalState,
                      query |-> query, threw |-> res.threw,
                      error |-> res.error, hasAuthCode |-> hasAuthCode,
                      branch |-> branch, finished |-> branch # "exchange",
                      responded |-> branch # "exchange" ]
      /\ UNCHANGED << now, refresher, tokenGrant, supersededState >>

(***************************************************************************)
(* The token exchanger.                                                    *)
(***************************************************************************)
\* response.ok
ResponseOk(response) == response.status >= 200 /\ response.status < 300

RECURSIVE SplitFrom(_, _, _, _)
\* the pieces of str from position i on, `piece` being the one under way
SplitFrom(str, separator, i, piece) ==
  IF i > Len(str) THEN << piece >>
  ELSE IF str[i] = separator
    THEN << piece >> \o SplitFrom(str, separator, i + 1, << >>)
  ELSE SplitFrom(str, separator, i + 1, Append(piece, str[i]))

\* str.split(separator)
Split(str, separator) == SplitFrom(str, separator, 1, << >>)

\* `if (scope)` of the response's scope
HasScope(json) == Has(json, "scope") /\ json.scope # << >>

\* the session update with `LocalState.refreshToken = refreshToken` outside
\* its `if (refresh_token)`
StoreTokens_ForgetRefreshToken(state, json, t) ==
  LET accessToken == [ value  |-> Get(json, "access_token"),
                       expiry |-> t + json.expires_in * MsPerSecond ]
      s1 == Put(state, "accessToken", accessToken)
      s2 == Put(s1, "refreshToken", [ value |-> Get(json, "refresh_token") ])
      scopes == IF HasScope(json) THEN Split(json.scope, " ") ELSE << >>
      s3 == IF HasScope(json) THEN Put(s2, "scopes", scopes) ELSE s2
      context == [ token |-> accessToken, scopes |-> scopes ]
  IN  [ state |-> s3,
        context |-> Put(context, "refreshToken", s3.refreshToken) ]

\* lines 359-383 and 450-476: the session update both exchanges share, from
\* a parsed body that has a numeric expires_in, received at instant t
StoreTokens(state, json, t) ==
  LET accessToken == [ value  |-> Get(json, "access_token"),
                       expiry |-> t + json.expires_in * MsPerSecond ]
      s1 == Put(state, "accessToken", accessToken)
      s2 == IF Truthy(Get(json, "refresh_token"))
              THEN Put(s1, "refreshToken", [ value |-> json.refresh_token ])
              ELSE s1
      scopes == IF HasScope(json) THEN Split(json.scope, " ") ELSE << >>
      s3 == IF HasScope(json) THEN Put(s2, "scopes", scopes) ELSE s2
      context == [ token |-> accessToken, scopes |-> scopes ]
  IN  [ state |-> s3,
        context |-> IF Has(s3, "refreshToken")
                      THEN Put(context, "refreshToken", s3.refreshToken)
                      ELSE context ]

\* a flow that threw `error`, leaving the session object `state`
Thrown(error, state) == [ threw |-> TRUE, error |-> error, state |-> state ]

\* a flow that returned the AccessContext `context`
Returned(stored) ==
  [ threw |-> FALSE, error |-> Undefined, state |-> stored.state,
    context |-> stored.context ]

\* exchangeAuthCodeForAccessToken with the assignment of
\* hasAuthCodeBeenExchangedForAccessToken put off to a later turn
AuthCodeExchange_FlagLater(state, response, t) ==
  IF response.kind = "network_error" THEN Thrown("NetworkError", state)
  ELSE IF ~ResponseOk(response)
    THEN IF response.parses
           THEN Thrown(ThrowToErrorClass(Get(response.json, "error")), state)
           ELSE Thrown("JsonParseError", state)
  ELSE IF ~response.parses THEN Thrown("JsonParseError", state)
  ELSE IF Has(response.json, "expires_in")
    THEN Returned(StoreTokens(state, response.json, t))
    ELSE Thrown("RangeError", state)

\* exchangeAuthCodeForAccessToken from the settling of `await fetch` on
AuthCodeExchange(state, response, t) ==
  IF response.kind = "network_error" THEN Thrown("NetworkError", state)
  ELSE IF ~ResponseOk(response)
    THEN IF response.parses
           THEN Thrown(ThrowToErrorClass(Get(response.json, "error")), state)
           ELSE Thrown("JsonParseError", state)
  ELSE IF ~response.parses THEN Thrown("JsonParseError", state)
  ELSE LET s1 == Put(state, "hasAuthCodeBeenExchangedForAccessToken", TRUE)
       IN  IF Has(response.json, "expires_in")
             THEN Returned(StoreTokens(s1, response.json, t))
             ELSE Thrown("RangeError", s1)

\* `err?.error` of what the try block of the refresh exchange can throw: the
\* rejection of response.json() and the RangeError of toISOString have none
ErrorPropertyOf(err) == Undefined

\* the catch block of exchangeRefreshTokenForAccessToken
RefreshCatch(err, state) ==
  Thrown(ThrowToErrorClass(IF Truthy(ErrorPropertyOf(err))
                             THEN ErrorPropertyOf(err)
                             ELSE "There was a network error."), state)

\* exchangeRefreshTokenForAccessToken from the settling of `await fetch` on
RefreshTokenExchange(state, response, t) ==
  IF response.kind = "network_error" THEN Thrown("NetworkError", state)
  ELSE IF response.status >= 400
    THEN IF response.parses
           THEN Thrown("ResponseBody", state)
           ELSE Thrown("JsonParseError", state)
  ELSE IF ~response.parses THEN RefreshCatch("JsonParseError", state)
  ELSE IF ~Has(response.json, "expires_in") THEN RefreshCatch("RangeError", state)
  ELSE Returned(StoreTokens(state, response.json, t))

\* the record of a settled exchange: an exception ends the flow that
\* called it (the request handler before res.end, refresh() by its rethrow)
ExchangeOutcome(op, before, response, res) ==
  IF res.threw
    THEN [ op |-> op, before |-> before, response |-> response,
           threw |-> TRUE, error |-> res.error,
           finished |-> TRUE, responded |-> FALSE ]
    ELSE [ op |-> op, before |-> before, response |-> response,
           threw |-> FALSE, error |-> Undefined,
           finished |-> FALSE, responded |-> FALSE, context |-> res.context ]

\* the request handler from the settling of the token request to its next
\* await; an exception ends the handler before res.end.  Between the
\* settling of `await fetch` and that of `await response.json()` the flow
\* reads and writes no session state and no clock, so the two are one step.
ExchangeAuthCodeResume(h, response) ==
  LET res == AuthCodeExchange(LocalState, response, now)
  IN  /\ Observed
      /\ BagIn(h, requests)
      /\ h.pc = "exchanging"
      /\ LocalState' = res.state
      /\ tokenGrant' = IF res.threw THEN tokenGrant
                       ELSE [ grant |-> "authorization_code", code |-> h.code ]
      /\ requests' = IF res.threw THEN requests (-) One(h)
                      ELSE (requests (-) One(h)) (+) One([ pc |-> "writing" ])
      /\ outcome' = ExchangeOutcome("exchangeAuthCode", LocalState, response, res)
      /\ UNCHANGED << now, refresher, supersededState >>

\* the request handler from the settling of writeToConfigFile to res.end
WriteConfigResume(h, written) ==
  /\ Observed
  /\ BagIn(h, requests)
  /\ h.pc = "writing"
  /\ requests' = requests (-) One(h)
  /\ outcome' = [ op |-> "writeToConfigFile", before |-> LocalState,
                  caller |-> "callback", threw |-> ~written, finished |-> TRUE, responded |-> written ]
  /\ UNCHANGED << LocalState, now, refresher, tokenGrant, supersededState >>

\* the body exchangeRefreshTokenForAccessToken posts
RefreshRequestBody(state) ==
  [ grant_type    |-> "refresh_token",
    refresh_token |-> IF Has(state, "refreshToken")
                        THEN state.refreshToken.value ELSE Undefined ]

\* refresh() up to `await fetch` in exchangeRefreshTokenForAccessToken
RefreshStart ==
  /\ Observed
  /\ refresher.pc = "idle"
  /\ refresher' = [ pc |-> "exchanging", sent |-> RefreshRequestBody(LocalState) ]
  /\ outcome' = [ op |-> "refresh", before |-> LocalState,
                  warned |-> ~Has(LocalState, "refreshToken"),
                  threw |-> FALSE, requested |-> TRUE ]
  /\ UNCHANGED << LocalState, now, requests, tokenGrant, supersededState >>

\* refresh() from the settling of the token request to its next await, or
\* to its catch block, which rethrows
RefreshResume(response) ==
  LET res == RefreshTokenExchange(LocalState, response, now)
  IN  /\ Observed
      /\ refresher.pc = "exchanging"
      /\ LocalState' = res.state
      /\ tokenGrant' = IF res.threw THEN tokenGrant
                       ELSE [ grant |-> "refresh_token" ]
      /\ refresher' = [ pc |-> IF res.threw THEN "idle" ELSE "writing" ]
      /\ outcome' = ExchangeOutcome("exchangeRefreshToken", LocalState, response, res)
      /\ UNCHANGED << now, requests, supersededState >>

\* refresh() from the settling of writeToConfigFile to its end
RefreshWriteResume(written) ==
  /\ Observed
  /\ refresher.pc = "writing"
  /\ refresher' = [ pc |-> "idle" ]
  /\ outcome' = [ op |-> "writeToConfigFile", before |-> LocalState,
                  caller |-> "refresh", threw |-> ~written, finished |-> TRUE, responded |-> FALSE ]
  /\ UNCHANGED << LocalState, now, requests, tokenGrant, supersededState >>

(***************************************************************************)
(* The readers of the session: isAccessTokenExpired and logout.            *)
(***************************************************************************)
\* isAccessTokenExpired with `>` for `>=`
isAccessTokenExpired_Strict(state, t) ==
  /\ Has(state, "accessToken")
  /\ state.accessToken.expiry # InvalidDate
  /\ t > state.accessToken.expiry

\* Boolean(accessToken && new Date() >= new Date(accessToken.expiry)) on the
\* session object `state` at instant t
isAccessTokenExpired(state, t) ==
  /\ Has(state, "accessToken")
  /\ state.accessToken.expiry # InvalidDate
  /\ t >= state.accessToken.expiry

\* a call of isAccessTokenExpired()
IsAccessTokenExpired ==
  /\ Observed
  /\ outcome' = [ op |-> "isAccessTokenExpired", before |-> LocalState,
                  now |-> now,
                  returned |-> isAccessTokenExpired(LocalState, now) ]
  /\ UNCHANGED << LocalState, now, requests, refresher, tokenGrant, supersededState >>

\* `refreshToken?.value || ""`, the token logout() asks to revoke
RevokedToken(state) ==
  IF Has(state, "refreshToken") /\ Truthy(state.refreshToken.value)
    THEN state.refreshToken.value ELSE ""

\* logout() up to `await fetch`; what follows reads and writes nothing of
\* the session
Logout ==
  /\ Observed
  /\ outcome' = [ op |-> "logout", before |-> LocalState,
                  token |-> RevokedToken(LocalState) ]
  /\ UNCHANGED << LocalState, now, requests, refresher, tokenGrant, supersededState >>

(***************************************************************************)
(* The specification.                                                      *)
(***************************************************************************)
\* the step just taken has been observed; it is forgotten
Observe ==
  /\ ~Observed
  /\ outcome' = NoOutcome
  /\ UNCHANGED << LocalState, now, requests, refresher, tokenGrant, supersededState >>

Next ==
  \/ Tick
  \/ GetAuthURL
  \/ \E query \in Queries : HandleCallback(query)
  \/ \E h \in BagToSet(requests), response \in TokenResponses :
       ExchangeAuthCodeResume(h, response)
  \/ \E h \in BagToSet(requests), written \in BOOLEAN : WriteConfigResume(h, written)
  \/ RefreshStart
  \/ \E response \in TokenResponses : RefreshResume(response)
  \/ \E written \in BOOLEAN : RefreshWriteResume(written)
  \/ IsAccessTokenExpired
  \/ Logout
  \/ Observe

Spec == Init /\ [][Next]_vars

(***************************************************************************)
(* toErrorClass on its own: a raw error string is drawn, and one of the    *)
(* three statements `throw toErrorClass(...)` classifies it.               *)
(***************************************************************************)
\* raw error strings that are no property of RawErrorToErrorClassMap or of
\* Object.prototype
UnlistedErrors ==
  { "", "bogus", "error", "There was a network error.", "Invalid_Grant",
    "INVALID_GRANT", "invalid_grant ", "invalid-grant", "access-denied",
    "authorization_pending", "slow_down", "expired_token",
    "interaction_required", "login_required", "consent_required",
    "unsupported_token_type" }

\* the raw errors drawn: a string, or undefined where the error is absent
RawErrors ==
  { Undefined } \cup DOMAIN RawErrorToErrorClassMap
    \cup ObjectPrototypeConstructors \cup ObjectPrototypeNonConstructors
    \cup UnlistedErrors

\* the record of a call toErrorClass(rawError) made in `caller`
Classified(caller, rawError) ==
  [ op |-> "toErrorClass", caller |-> caller, rawError |-> rawError,
    threw |-> toErrorClass(rawError).threw,
    value |-> toErrorClass(rawError).value ]

InitToErrorClass ==
  /\ LocalState = EmptyObject
  /\ now = 0
  /\ requests = EmptyBag
  /\ refresher = [ pc |-> "idle" ]
  /\ tokenGrant = NoGrant
  /\ supersededState = Undefined
  /\ outcome \in [ op : { "rawError" }, rawError : RawErrors ]

\* `if (query.error) { throw toErrorClass(query.error); }`
ClassifyQueryError ==
  /\ outcome.op = "rawError"
  /\ Truthy(outcome.rawError)
  /\ outcome' = Classified("isReturningFromAuthServer", outcome.rawError)
  /\ UNCHANGED << LocalState, now, requests, refresher, tokenGrant, supersededState >>

\* `throw toErrorClass(error)` of exchangeAuthCodeForAccessToken, `error`
\* being the error property of the body
ClassifyBodyError ==
  /\ outcome.op = "rawError"
  /\ outcome' = Classified("exchangeAuthCodeForAccessToken", outcome.rawError)
  /\ UNCHANGED << LocalState, now, requests, refresher, tokenGrant, supersededState >>

\* `throw toErrorClass(error)` of the catch block of
\* exchangeRefreshTokenForAccessToken, `error` being
\* `err?.error || "There was a network error."`
ClassifyCaughtError ==
  /\ outcome.op = "rawError"
  /\ outcome' = Classified("exchangeRefreshTokenForAccessToken",
                           IF Truthy(outcome.rawError) THEN outcome.rawError
                           ELSE "There was a network error.")
  /\ UNCHANGED << LocalState, now, requests, refresher, tokenGrant, supersededState >>

NextToErrorClass ==
  \/ ClassifyQueryError
  \/ ClassifyBodyError
  \/ ClassifyCaughtError

SpecToErrorClass == InitToErrorClass /\ [][NextToErrorClass]_vars

(***************************************************************************)
(* Views of the state the properties below read.                           *)
(***************************************************************************)
\* LocalState.authorizationCode, undefined when absent
authorizationCode(state) == Get(state, "authorizationCode")

\* LocalState.hasAuthCodeBeenExchangedForAccessToken: "unset", "false", "true"
codeExchanged(state) ==
  IF ~Has(state, "hasAuthCodeBeenExchangedForAccessToken") THEN "unset"
  ELSE IF state.hasAuthCodeBeenExchangedForAccessToken THEN "true" ELSE "false"

\* the access and refresh tokens of a session object
Tokens(state) ==
  << IF Has(state, "accessToken") THEN << state.accessToken >> ELSE << >>,
     IF Has(state, "refreshToken") THEN << state.refreshToken >> ELSE << >> >>

\* the step just taken is the request handler receiving a callback
IsCallback == outcome.op = "callback"

\* the step just taken is the settling of a token request of either exchange
IsExchange == outcome.op \in { "exchangeAuthCode", "exchangeRefreshToken" }

\* the callback's state parameter is the stored stateQueryParam
StateMatches(query, state) == query.state = Get(state, "stateQueryParam")

\* the token endpoint answered with a body that parses to { error: e, ... }
ErrorShaped(response) ==
  /\ response.kind = "http"
  /\ response.parses
  /\ Has(response.json, "error")

\* the refresh token of a session object or of an AccessContext
RefreshTokenOf(obj) ==
  IF Has(obj, "refreshToken") THEN << obj.refreshToken >> ELSE << >>

\* the access token of a session object
AccessTokenOf(state) ==
  IF Has(state, "accessToken") THEN << state.accessToken >> ELSE << >>

\* the granted scopes of a session object, none when it has no scopes
SessionScopes(state) == IF Has(state, "scopes") THEN state.scopes ELSE << >>

\* the session objects s and t agree on the property k
SameField(s, t, k) ==
  /\ Has(s, k) <=> Has(t, k)
  /\ Has(s, k) => s[k] = t[k]

\* the step just taken is a token exchange that returned an AccessContext
IsSuccessfulExchange == IsExchange /\ ~outcome.threw

(***************************************************************************)
(* C1.  The callback handler sets authorizationCode only when the          *)
(* callback's state parameter equals the stored stateQueryParam, and a     *)
(* callback that carries a code and any other state value fails with       *)
(* ErrorInvalidReturnedStateParam, authorizationCode and codeExchanged     *)
(* staying as they were.                                                   *)
(***************************************************************************)
\* authorizationCode is set, by a callback whose state matches, to the code
\* of that callback; no other step of any flow changes it
C1_SetOnlyOnMatch ==
  /\ IsCallback /\ outcome.hasAuthCode
     => /\ StateMatches(outcome.query, outcome.before)
        /\ authorizationCode(LocalState) = outcome.query.code
  /\ outcome # NoOutcome
       /\ authorizationCode(LocalState) # authorizationCode(outcome.before)
     => IsCallback /\ StateMatches(outcome.query, outcome.before)

\* a callback with a code and another state value leaves the two fields alone
C1_MismatchLeavesCode ==
  ( IsCallback /\ Truthy(outcome.query.code)
    /\ ~StateMatches(outcome.query, outcome.before) )
  => /\ outcome.threw
     /\ authorizationCode(LocalState) = authorizationCode(outcome.before)
     /\ codeExchanged(LocalState) = codeExchanged(outcome.before)

\* C1 as claimed: every callback with a code and another state value fails
\* with the state-mismatch error
C1_AnyMismatchIsInvalidReturnedState ==
  /\ C1_SetOnlyOnMatch
  /\ C1_MismatchLeavesCode
  /\ ( IsCallback /\ Truthy(outcome.query.code)
       /\ ~StateMatches(outcome.query, outcome.before) )
     => outcome.error = "ErrorInvalidReturnedStateParam"

\* C1 as amended: the error is the state-mismatch error when the callback
\* carries no non-empty error parameter, which is checked first
C1_CodeSetOnlyOnMatchingState ==
  /\ C1_SetOnlyOnMatch
  /\ C1_MismatchLeavesCode
  /\ ( IsCallback /\ ~Truthy(outcome.query.error)
       /\ Truthy(outcome.query.code)
       /\ ~StateMatches(outcome.query, outcome.before) )
     => outcome.error = "ErrorInvalidReturnedStateParam"

\* once getAuthURL has stored a state and a code has been accepted, a callback
\* with a code and another state value has been rejected
C1_Witness ==
  /\ IsCallback
  /\ ~Truthy(outcome.query.error)
  /\ Truthy(outcome.query.code)
  /\ outcome.query.state \in States
  /\ Has(outcome.before, "stateQueryParam")
  /\ ~StateMatches(outcome.query, outcome.before)
  /\ Has(outcome.before, "authorizationCode")
  /\ outcome.query.code # outcome.before.authorizationCode
  /\ outcome.error = "ErrorInvalidReturnedStateParam"

(***************************************************************************)
(* C2.  A callback query that contains an error parameter fails with the   *)
(* classified error for that parameter (access_denied gives                *)
(* ErrorAccessDenied) and mutates no session state, whatever code and      *)
(* state it carries: the checks run in the order error, missing code,      *)
(* state mismatch, accept.                                                 *)
(***************************************************************************)
\* the callback failed with the class of its error parameter and changed
\* nothing
FailedWithClassifiedError ==
  /\ outcome.threw
  /\ outcome.error = ThrowToErrorClass(outcome.query.error)
  /\ outcome.query.error = "access_denied" => outcome.error = "ErrorAccessDenied"
  /\ LocalState = outcome.before
  /\ outcome.branch = "no auth code"

\* the checks that follow the error check, in their order
ChecksAfterError ==
  ( IsCallback /\ ~Truthy(outcome.query.error) )
  => IF ~Truthy(outcome.query.code)
       THEN ~outcome.threw /\ ~outcome.hasAuthCode
     ELSE IF ~StateMatches(outcome.query, outcome.before)
       THEN outcome.threw /\ outcome.error = "ErrorInvalidReturnedStateParam"
     ELSE ~outcome.threw /\ outcome.hasAuthCode

\* C2 as claimed: every error parameter the query contains
C2_AnyErrorParameterFails ==
  /\ ( IsCallback /\ outcome.query.error # Undefined ) => FailedWithClassifiedError
  /\ ChecksAfterError

\* C2 as amended: every non-empty error parameter
C2_ErrorParameterFirst ==
  /\ ( IsCallback /\ Truthy(outcome.query.error) ) => FailedWithClassifiedError
  /\ ChecksAfterError

\* a callback with error=access_denied, no code and a state value other than
\* the stored one has failed with ErrorAccessDenied
C2_Witness ==
  /\ IsCallback
  /\ outcome.query.error = "access_denied"
  /\ outcome.query.code = Undefined
  /\ Has(outcome.before, "stateQueryParam")
  /\ ~StateMatches(outcome.query, outcome.before)
  /\ outcome.threw
  /\ outcome.error = "ErrorAccessDenied"

(***************************************************************************)
(* C3.  Only the first valid code is accepted: once a callback has been    *)
(* accepted, a later callback with a different code or a stale state value *)
(* is a no-op that changes neither authorizationCode nor codeExchanged nor *)
(* the tokens, and starts no exchange that would.                          *)
(***************************************************************************)
C3_LaterCallbackIsNoOp ==
  ( IsCallback
    /\ Has(outcome.before, "authorizationCode")
    /\ Truthy(outcome.query.code)
    /\ ( outcome.query.code # outcome.before.authorizationCode
         \/ ~StateMatches(outcome.query, outcome.before) ) )
  => /\ authorizationCode(LocalState) = authorizationCode(outcome.before)
     /\ codeExchanged(LocalState) = codeExchanged(outcome.before)
     /\ Tokens(LocalState) = Tokens(outcome.before)
     /\ outcome.branch # "exchange"

(***************************************************************************)
(* C4.  When either exchange fails, the session state after it equals the  *)
(* session state before it: no partial write.                              *)
(***************************************************************************)
C4_FailedExchangeLeavesState ==
  ( IsExchange /\ outcome.threw ) => LocalState = outcome.before

(***************************************************************************)
(* C5.  With no refresh token stored, the refresh exchange fails with a    *)
(* usage error and issues no request to the token endpoint.                *)
(***************************************************************************)
C5_NoRefreshTokenNoRequest ==
  ( outcome.op = "refresh" /\ ~Has(outcome.before, "refreshToken") )
  => /\ outcome.threw
     /\ ~outcome.requested
     /\ refresher.pc # "exchanging"

(***************************************************************************)
(* C6.  In every reachable state codeExchanged is true if and only if an   *)
(* access token is stored and was obtained by exchanging the currently     *)
(* stored authorizationCode.                                               *)
(***************************************************************************)
C6_CodeExchangedIffTokenOfCode ==
  ( codeExchanged(LocalState) = "true" )
  <=> /\ Has(LocalState, "accessToken")
      /\ tokenGrant.grant = "authorization_code"
      /\ tokenGrant.code = authorizationCode(LocalState)

(***************************************************************************)
(* C7.  For both exchanges, a response with a non-success status and body  *)
(* { error: e } makes the exchange fail with the classified error for e.   *)
(***************************************************************************)
C7_ErrorStatusIsClassified ==
  ( IsExchange /\ ErrorShaped(outcome.response)
    /\ ~ResponseOk(outcome.response) )
  => /\ outcome.threw
     /\ outcome.error = ThrowToErrorClass(outcome.response.json.error)
     /\ outcome.response.json.error = "invalid_grant"
        => outcome.error = "ErrorInvalidGrant"

(***************************************************************************)
(* C8.  For both exchanges, a response with a success status and body      *)
(* { error: e } fares as with a non-success status: the exchange fails     *)
(* with the classified error for e, returns no AccessContext, sets no      *)
(* access token and does not set codeExchanged.                            *)
(***************************************************************************)
C8_ErrorBodyWithSuccessStatus ==
  ( IsExchange /\ ErrorShaped(outcome.response)
    /\ ResponseOk(outcome.response) )
  => /\ outcome.threw
     /\ outcome.error = ThrowToErrorClass(outcome.response.json.error)
     /\ ~Has(outcome, "context")
     /\ Tokens(LocalState) = Tokens(outcome.before)
     /\ codeExchanged(LocalState) = codeExchanged(outcome.before)

(***************************************************************************)
(* C9.  For both exchanges and either status class, a response whose body  *)
(* does not parse as JSON makes the exchange fail with ErrorInvalidJson.   *)
(***************************************************************************)
C9_UnparseableBodyIsInvalidJson ==
  ( IsExchange /\ outcome.response.kind = "http" /\ ~outcome.response.parses )
  => /\ outcome.threw
     /\ outcome.error = "ErrorInvalidJson"

(***************************************************************************)
(* C10.  A callback query with no error parameter and no code parameter,   *)
(* or an empty one, is reported as carrying no authorization code: the     *)
(* handler returns false, raises nothing and leaves the whole session      *)
(* state unchanged, whatever state parameter the query carries.            *)
(***************************************************************************)
C10_MissingCodeIsNoOp ==
  ( IsCallback /\ outcome.query.error = Undefined
    /\ ~Truthy(outcome.query.code) )
  => /\ ~outcome.threw
     /\ ~outcome.hasAuthCode
     /\ outcome.branch = "no auth code"
     /\ outcome.responded
     /\ LocalState = outcome.before

\* a callback with an empty code and a state value other than the stored one
\* has been answered while the session holds an accepted code
C10_Witness ==
  /\ IsCallback
  /\ outcome.query.error = Undefined
  /\ outcome.query.code = ""
  /\ outcome.query.state \in States
  /\ Has(outcome.before, "stateQueryParam")
  /\ ~StateMatches(outcome.query, outcome.before)
  /\ Has(outcome.before, "authorizationCode")
  /\ ~outcome.threw
  /\ ~outcome.hasAuthCode

(***************************************************************************)
(* C11.  A callback query that contains a code but no state parameter is   *)
(* rejected with ErrorInvalidReturnedStateParam and does not set           *)
(* authorizationCode.                                                      *)
(***************************************************************************)
\* the step just taken is a callback with a code and no state parameter
IsCallbackWithoutState ==
  /\ IsCallback
  /\ Truthy(outcome.query.code)
  /\ outcome.query.state = Undefined

\* C11 as claimed: every such callback, whatever the session holds
C11_CodeWithoutStateIsRejected ==
  IsCallbackWithoutState
  => /\ outcome.threw
     /\ outcome.error = "ErrorInvalidReturnedStateParam"
     /\ authorizationCode(LocalState) = authorizationCode(outcome.before)

\* C11 as amended: the callback is rejected with the state-mismatch error
\* when getAuthURL has stored a state value and the query has no non-empty
\* error parameter; with such a parameter it is rejected with the class of
\* that parameter; with no state value stored it is accepted
C11_CodeWithoutStateAgainstStoredState ==
  IsCallbackWithoutState
  => IF Truthy(outcome.query.error)
       THEN /\ outcome.threw
            /\ outcome.error = ThrowToErrorClass(outcome.query.error)
            /\ LocalState = outcome.before
     ELSE IF Has(outcome.before, "stateQueryParam")
       THEN /\ outcome.threw
            /\ outcome.error = "ErrorInvalidReturnedStateParam"
            /\ ~outcome.hasAuthCode
            /\ LocalState = outcome.before
     ELSE /\ ~outcome.threw
          /\ outcome.hasAuthCode
          /\ authorizationCode(LocalState) = outcome.query.code

\* after getAuthURL, a callback with a code, no error and no state parameter
\* has been rejected with the state-mismatch error
C11_Witness ==
  /\ IsCallbackWithoutState
  /\ outcome.query.error = Undefined
  /\ Has(outcome.before, "stateQueryParam")
  /\ ~Has(outcome.before, "authorizationCode")
  /\ outcome.threw
  /\ outcome.error = "ErrorInvalidReturnedStateParam"
  /\ ~Has(LocalState, "authorizationCode")

(***************************************************************************)
(* C12.  Round trip: after getAuthURL has stored a state value, a callback *)
(* with no error parameter, a non-empty code c and exactly that state      *)
(* value is accepted, and afterwards authorizationCode is c and            *)
(* codeExchanged is false; such a callback with any other state value      *)
(* fails with ErrorInvalidReturnedStateParam.                              *)
(***************************************************************************)
C12_RoundTrip ==
  /\ outcome.op = "getAuthURL"
     => Get(LocalState, "stateQueryParam") = outcome.state
  /\ ( IsCallback
       /\ Has(outcome.before, "stateQueryParam")
       /\ ~Truthy(outcome.query.error)
       /\ Truthy(outcome.query.code) )
     => IF outcome.query.state = outcome.before.stateQueryParam
          THEN /\ ~outcome.threw
               /\ outcome.hasAuthCode
               /\ authorizationCode(LocalState) = outcome.query.code
               /\ codeExchanged(LocalState) = "false"
          ELSE /\ outcome.threw
               /\ outcome.error = "ErrorInvalidReturnedStateParam"

\* a callback with the stored state value has been accepted, its code taking
\* the place of a code that had been exchanged
C12_Witness ==
  /\ IsCallback
  /\ outcome.query.error = Undefined
  /\ outcome.query.code \in Codes
  /\ Has(outcome.before, "stateQueryParam")
  /\ outcome.query.state = outcome.before.stateQueryParam
  /\ codeExchanged(outcome.before) = "true"
  /\ authorizationCode(outcome.before) # outcome.query.code
  /\ outcome.hasAuthCode
  /\ authorizationCode(LocalState) = outcome.query.code
  /\ codeExchanged(LocalState) = "false"

(***************************************************************************)
(* C13.  After a successful exchange of either kind, of a response         *)
(* received at time t0, the returned AccessContext is the resulting        *)
(* session: its token has the value access_token and the expiry            *)
(* t0 + expires_in seconds, its refreshToken is the session's refresh      *)
(* token, its scopes are the session's granted scopes (the split scope     *)
(* string when the response has one); after an authorization-code          *)
(* exchange codeExchanged is true.                                         *)
(***************************************************************************)
C13_ContextIsResultingSession ==
  IsSuccessfulExchange
  => /\ outcome.context.token.value = Get(outcome.response.json, "access_token")
     /\ outcome.context.token.expiry
          = now + outcome.response.json.expires_in * MsPerSecond
     /\ AccessTokenOf(LocalState) = << outcome.context.token >>
     /\ RefreshTokenOf(outcome.context) = RefreshTokenOf(LocalState)
     /\ HasScope(outcome.response.json)
        => outcome.context.scopes = Split(outcome.response.json.scope, " ")
     /\ outcome.context.scopes = SessionScopes(LocalState)
     /\ outcome.op = "exchangeAuthCode" => codeExchanged(LocalState) = "true"

(***************************************************************************)
(* C14.  When a successful token response of either exchange carries no    *)
(* refresh_token, the stored refresh token keeps its prior value and the   *)
(* AccessContext returns that prior value; when the response carries one,  *)
(* the stored refresh token is replaced by it.                             *)
(***************************************************************************)
C14_RefreshTokenKeptOrReplaced ==
  IsSuccessfulExchange
  => IF Truthy(Get(outcome.response.json, "refresh_token"))
       THEN /\ RefreshTokenOf(LocalState)
                 = << [ value |-> outcome.response.json.refresh_token ] >>
            /\ RefreshTokenOf(outcome.context) = RefreshTokenOf(LocalState)
       ELSE /\ RefreshTokenOf(LocalState) = RefreshTokenOf(outcome.before)
            /\ RefreshTokenOf(outcome.context) = RefreshTokenOf(outcome.before)

\* a refresh exchange has succeeded on a response without refresh_token
\* while a refresh token was stored, and has returned that one
C14_Witness ==
  /\ IsSuccessfulExchange
  /\ outcome.op = "exchangeRefreshToken"
  /\ ~Has(outcome.response.json, "refresh_token")
  /\ Has(outcome.before, "refreshToken")
  /\ Has(outcome.context, "refreshToken")
  /\ outcome.context.refreshToken = outcome.before.refreshToken
  /\ AccessTokenOf(LocalState) # AccessTokenOf(outcome.before)

(***************************************************************************)
(* C15.  isAccessTokenExpired returns true if and only if an access token  *)
(* is stored and the current time is at or past its stored expiry: false   *)
(* with no access token, true with an expiry in the past or equal to now,  *)
(* false with an expiry in the future; it changes no session state.        *)
(***************************************************************************)
C15_ExpiredIffStoredAndDue ==
  outcome.op = "isAccessTokenExpired"
  => /\ LocalState = outcome.before
     /\ IF ~Has(outcome.before, "accessToken") THEN ~outcome.returned
        ELSE IF outcome.before.accessToken.expiry = InvalidDate
          THEN ~outcome.returned
        ELSE IF outcome.before.accessToken.expiry < outcome.now
          THEN outcome.returned
        ELSE IF outcome.before.accessToken.expiry = outcome.now
          THEN outcome.returned
        ELSE ~outcome.returned

\* isAccessTokenExpired has returned true at the very instant the token
\* obtained by an exchange expires
C15_Witness ==
  /\ outcome.op = "isAccessTokenExpired"
  /\ tokenGrant.grant # "file"
  /\ Has(outcome.before, "accessToken")
  /\ outcome.before.accessToken.expiry = outcome.now
  /\ outcome.returned

(***************************************************************************)
(* C16.  Each call of getAuthURL overwrites the stored PKCE verifier, PKCE *)
(* challenge and state value together with freshly generated values, so    *)
(* that after a second call a callback carrying the first attempt's state  *)
(* value, different from the new one, is rejected with                     *)
(* ErrorInvalidReturnedStateParam; the verifier, challenge and state       *)
(* stored at any time come from the same getAuthURL call.                  *)
(***************************************************************************)
\* the three values are written by getAuthURL, all three in the one step,
\* and by nothing else
PKCEFromOneCall ==
  /\ outcome.op = "getAuthURL"
     => /\ Get(LocalState, "stateQueryParam") = outcome.state
        /\ Has(LocalState, "codeChallenge")
        /\ LocalState.codeChallenge = outcome.code_challenge
  /\ outcome.op \notin { "none", "getAuthURL" }
     => /\ SameField(LocalState, outcome.before, "codeVerifier")
        /\ SameField(LocalState, outcome.before, "codeChallenge")
        /\ SameField(LocalState, outcome.before, "stateQueryParam")
  /\ Has(LocalState, "codeVerifier") <=> Has(LocalState, "stateQueryParam")
  /\ Has(LocalState, "codeVerifier") <=> Has(LocalState, "codeChallenge")
  /\ Has(LocalState, "codeVerifier")
     => LocalState.codeChallenge = S256(LocalState.codeVerifier)

\* the step just taken is a callback carrying the state value that the last
\* getAuthURL call replaced by a different one
IsCallbackOfSupersededAttempt ==
  /\ IsCallback
  /\ supersededState # Undefined
  /\ outcome.query.state = supersededState
  /\ outcome.query.state # Get(outcome.before, "stateQueryParam")

\* C16 as claimed: every callback carrying the superseded state value
C16_SupersededStateIsRejected ==
  /\ PKCEFromOneCall
  /\ IsCallbackOfSupersededAttempt
     => /\ outcome.threw
        /\ outcome.error = "ErrorInvalidReturnedStateParam"

\* C16 as amended: the callback carrying the superseded state value is never
\* accepted; it is rejected with the state-mismatch error when it has a
\* code and no non-empty error parameter
C16_SupersededStateIsNeverAccepted ==
  /\ PKCEFromOneCall
  /\ IsCallbackOfSupersededAttempt
     => /\ ~outcome.hasAuthCode
        /\ LocalState = outcome.before
        /\ ( ~Truthy(outcome.query.error) /\ Truthy(outcome.query.code) )
           => /\ outcome.threw
              /\ outcome.error = "ErrorInvalidReturnedStateParam"

\* after a second getAuthURL call, the authorization response of the first
\* attempt has been rejected with the state-mismatch error
C16_Witness ==
  /\ IsCallbackOfSupersededAttempt
  /\ outcome.query.error = Undefined
  /\ outcome.query.code \in Codes
  /\ outcome.threw
  /\ outcome.error = "ErrorInvalidReturnedStateParam"
  /\ LocalState = outcome.before

(***************************************************************************)
(* C17.  toErrorClass is total over raw error strings: each string of the  *)
(* table maps to its one error class (invalid_grant to ErrorInvalidGrant,  *)
(* access_denied to ErrorAccessDenied) and every string that is not in the *)
(* table maps to ErrorUnknown, the caller never crashing.                  *)
(***************************************************************************)
C17_ToErrorClassIsTotal ==
  outcome.op = "toErrorClass"
  => /\ ~outcome.threw
     /\ IF outcome.rawError \in DOMAIN RawErrorToErrorClassMap
          THEN outcome.value = RawErrorToErrorClassMap[outcome.rawError]
          ELSE outcome.value = "ErrorUnknown"
     /\ outcome.rawError = "invalid_grant" => outcome.value = "ErrorInvalidGrant"
     /\ outcome.rawError = "access_denied" => outcome.value = "ErrorAccessDenied"

(***************************************************************************)
(* C18.  Every request received by the callback endpoint eventually        *)
(* receives the acknowledgement response, whatever its parameters and      *)
(* whatever the outcome of the token exchange and of the credential-file   *)
(* write its handler performs before responding.  A handler that has ended *)
(* does nothing more, so the claim requires that no handler ends without   *)
(* having responded.                                                       *)
(***************************************************************************)
\* the step just taken is a step of a callback request handler
IsHandlerStep ==
  \/ outcome.op \in { "callback", "exchangeAuthCode" }
  \/ outcome.op = "writeToConfigFile" /\ outcome.caller = "callback"

C18_EveryRequestIsAcknowledged ==
  ( IsHandlerStep /\ outcome.finished ) => outcome.responded

(***************************************************************************)
(* C19.  Under any interleaving of callback handlers, refresh calls and    *)
(* readers, the session update after a successful exchange is atomic: no   *)
(* flow observes the access token of the new response together with a      *)
(* refresh token, scopes or codeExchanged from before it.  The states a    *)
(* flow can observe are those between two steps: the step that stores the  *)
(* new access token leaves the other three updated, and no other step      *)
(* stores an access token.                                                 *)
(***************************************************************************)
C19_ExchangeUpdateIsOneStep ==
  /\ IsSuccessfulExchange
     => /\ AccessTokenOf(LocalState)
             = << [ value  |-> Get(outcome.response.json, "access_token"),
                    expiry |-> now + outcome.response.json.expires_in * MsPerSecond ] >>
        /\ Truthy(Get(outcome.response.json, "refresh_token"))
           => RefreshTokenOf(LocalState)
                = << [ value |-> outcome.response.json.refresh_token ] >>
        /\ HasScope(outcome.response.json)
           => SessionScopes(LocalState) = Split(outcome.response.json.scope, " ")
        /\ outcome.op = "exchangeAuthCode" => codeExchanged(LocalState) = "true"
  /\ ( outcome # NoOutcome /\ ~IsSuccessfulExchange )
     => /\ AccessTokenOf(LocalState) = AccessTokenOf(outcome.before)
        /\ RefreshTokenOf(LocalState) = RefreshTokenOf(outcome.before)
        /\ SessionScopes(LocalState) = SessionScopes(outcome.before)
  /\ outcome.op = "logout" => outcome.token = RevokedToken(LocalState)
  /\ outcome.op = "refresh" => refresher.sent = RefreshRequestBody(LocalState)

\* an authorization-code exchange has stored new tokens and scopes over
\* older ones and set codeExchanged while a refresh call and another
\* callback request were waiting for the token endpoint
C19_Witness ==
  /\ IsSuccessfulExchange
  /\ outcome.op = "exchangeAuthCode"
  /\ refresher.pc = "exchanging"
  /\ \E h \in BagToSet(requests) : h.pc = "exchanging"
  /\ Has(outcome.before, "accessToken")
  /\ Has(outcome.before, "refreshToken")
  /\ codeExchanged(outcome.before) = "false"
  /\ AccessTokenOf(LocalState) # AccessTokenOf(outcome.before)
  /\ RefreshTokenOf(LocalState) # RefreshTokenOf(outcome.before)
  /\ SessionScopes(LocalState) # SessionScopes(outcome.before)
  /\ codeExchanged(LocalState) = "true"

(***************************************************************************)
(* C20.  In the request handler, whenever isReturningFromAuthServer has    *)
(* returned true, the request's code equals the stored authorizationCode   *)
(* at the handler's comparison, under every interleaving of requests: the  *)
(* "not matching" branch is unreachable and every accepted callback goes   *)
(* on to the token exchange, a duplicate of an exchanged code included.    *)
(***************************************************************************)
C20_AcceptedCallbackIsExchanged ==
  IsCallback
  => /\ outcome.branch # "not matching"
     /\ outcome.hasAuthCode
        => /\ outcome.query.code = authorizationCode(LocalState)
           /\ outcome.branch = "exchange"
           /\ ~outcome.finished
           /\ BagIn([ pc |-> "exchanging", code |-> outcome.query.code ], requests)

\* a second callback with the code that has been exchanged has been accepted
\* and has started an exchange while another request was being handled
C20_Witness ==
  /\ IsCallback
  /\ outcome.hasAuthCode
  /\ codeExchanged(outcome.before) = "true"
  /\ outcome.query.code = authorizationCode(outcome.before)
  /\ tokenGrant.grant = "authorization_code"
  /\ tokenGrant.code = outcome.query.code
  /\ outcome.branch = "exchange"
  /\ BagCardinality(requests) = 2

====
